---- MODULE Spec2Model ----
(***************************************************************************)
(* Model of scripts/diff_stix.py: DiffStix.load_data, the classifier that  *)
(* compares an old and a new STIX bundle per (object type, domain) pair.   *)
(*                                                                         *)
(* A STIX object / python dict is a TLA+ record; an optional field that is *)
(* not set is a field the record does not have.  A python list built from  *)
(* a set (the result sections) is modelled as a set: it has no duplicates  *)
(* and its order is the set's iteration order.  The reference stored in    *)
(* "revoked_by" is modelled by the id of the object it points to.          *)
(***************************************************************************)
EXTENDS Integers, Sequences, FiniteSets, TLC

VARIABLES
    files,              \* <<side, domain>> -> the objects of <dir>/<domain>.json, in order
    self_types,         \* self.types
    self_domains,       \* self.domains
    self_minor_changes, \* self.minor_changes
    self_data,          \* self.data: <<obj_type, domain>> -> section -> set of objects
    pc,                 \* position in load_data
    ti, di,             \* positions of the two for loops over types and domains
    old, new,           \* the two loaded snapshots of the current pair
    iter,               \* keys of intersection the for loop has not visited yet
    key,                \* loop variable of "for key in intersection"
    intersection, additions, deletions,
    changes, minor_changes, revocations, deprecations,
    old_version, new_version, \* locals of load_data, shared by all iterations
    stdout,             \* what print() has written
    raised              \* the exception that left load_data, "" if none

vars == <<files, self_types, self_domains, self_minor_changes, self_data, pc,
          ti, di, old, new, iter, key, intersection, additions, deletions,
          changes, minor_changes, revocations, deprecations,
          old_version, new_version, stdout, raised>>

(***************************************************************************)
(* Bounds of the model.                                                    *)
(***************************************************************************)
MaxVersion == 2     \* number of distinct parsable version strings in the inputs
MaxDate == 2        \* number of distinct modification timestamps in the inputs

(***************************************************************************)
(* Helper maps and python values.                                          *)
(***************************************************************************)
EmptyDict == [x \in {} |-> {}]

Filter(property, value) == [property |-> property, op |-> "=", value |-> value]

attackTypeToStixFilter ==
    [technique  |-> <<Filter("type", "attack-pattern")>>,
     software   |-> <<Filter("type", "malware"), Filter("type", "tool")>>,
     group      |-> <<Filter("type", "intrusion-set")>>,
     mitigation |-> <<Filter("type", "course-of-action")>>]

\* float(): the strings that parse, with their value in tenths
FloatTable == <<"1.0", "1.1", "2.0", "2.1">>
FloatValue == <<10, 11, 20, 21>>

\* str() of a STIX timestamp, and dateutil's parse of that string
DateTable == <<"2020-01-01 00:00:00+00:00", "2020-06-01 00:00:00+00:00",
               "2021-01-01 00:00:00+00:00", "2021-06-01 00:00:00+00:00">>

Unbound == -1       \* a local variable no assignment has reached yet

str(stamp) == DateTable[stamp]

dateparser_parse(s) == CHOOSE i \in DOMAIN DateTable : DateTable[i] = s

CanFloat(obj) ==
    /\ "x_mitre_version" \in DOMAIN obj
    /\ \E i \in DOMAIN FloatTable : FloatTable[i] = obj.x_mitre_version

float(s) == FloatValue[CHOOSE i \in DOMAIN FloatTable : FloatTable[i] = s]

(***************************************************************************)
(* MemoryStore.query: the objects of the store that match every filter,    *)
(* in store order.                                                         *)
(***************************************************************************)
Match(obj, f) == f.property \in DOMAIN obj /\ obj[f.property] = f.value

query(data_store, filters) ==
    SelectSeq(data_store, LAMBDA obj : \A i \in DOMAIN filters : Match(obj, filters[i]))

RECURSIVE chain(_)
chain(lists) ==
    IF lists = <<>> THEN <<>> ELSE Head(lists) \o chain(Tail(lists))

deep_copy_obj(obj) ==
    IF "modified" \in DOMAIN obj
    THEN [obj EXCEPT !.modified = str(obj.modified)]
    ELSE obj

deep_copy_stix(objects) == [i \in DOMAIN objects |-> deep_copy_obj(objects[i])]

\* {item['id']: item for item in raw_data}: a later item replaces an earlier one
id_to_obj_of(raw_data) ==
    [i \in {raw_data[j].id : j \in DOMAIN raw_data} |->
        raw_data[CHOOSE j \in DOMAIN raw_data :
                    /\ raw_data[j].id = i
                    /\ \A l \in DOMAIN raw_data : raw_data[l].id = i => l <= j]]

raw_data_of(data_store, obj_type) ==
    deep_copy_stix(chain([i \in DOMAIN attackTypeToStixFilter[obj_type] |->
                            query(data_store, <<attackTypeToStixFilter[obj_type][i]>>)]))

load_datastore(data_store, obj_type) ==
    [id_to_obj  |-> id_to_obj_of(raw_data_of(data_store, obj_type)),
     keys       |-> DOMAIN id_to_obj_of(raw_data_of(data_store, obj_type)),
     data_store |-> data_store]

(***************************************************************************)
(* The tests of the classification loop.                                   *)
(***************************************************************************)
is_revoked(obj) == "revoked" \in DOMAIN obj /\ obj.revoked

not_previously_revoked_presence(obj) == ~("revoked" \in DOMAIN obj)

not_previously_revoked(obj) == ~("revoked" \in DOMAIN obj) \/ ~obj.revoked

is_deprecated(obj) == "x_mitre_deprecated" \in DOMAIN obj /\ obj.x_mitre_deprecated

not_previously_deprecated_value(obj) ==
    ~("x_mitre_deprecated" \in DOMAIN obj) \/ ~obj.x_mitre_deprecated

not_previously_deprecated(obj) == ~("x_mitre_deprecated" \in DOMAIN obj)

version_not_decreased(nv, ov) == nv >= ov

version_increased(nv, ov) == nv > ov

date_increased(nd, od) == nd > od

(***************************************************************************)
(* The body of "for key in intersection", as a function of the key and of  *)
(* the locals s it reads and writes.  A step that raises leaves in s what  *)
(* the statements before the raise have done.                              *)
(***************************************************************************)
revoked_by_query(k) ==
    <<Filter("type", "relationship"),
      Filter("relationship_type", "revoked-by"),
      Filter("source_ref", k)>>

store_revoking_object_swapped(k, s) ==
    LET found == query(s.new.data_store, revoked_by_query(k))
    IN  IF found = <<>>
        THEN [s EXCEPT !.raised = "IndexError"]
        ELSE IF found[1].target_ref \notin DOMAIN s.new.id_to_obj
        THEN [s EXCEPT !.raised = "KeyError"]
        ELSE [s EXCEPT !.new.id_to_obj[found[1].target_ref] = [revoked_by |-> k] @@ @,
                       !.revocations = @ \cup {k}]

store_revoking_object(k, s) ==
    LET found == query(s.new.data_store, revoked_by_query(k))
    IN  IF found = <<>>
        THEN [s EXCEPT !.raised = "IndexError"]
        ELSE IF found[1].target_ref \notin DOMAIN s.new.id_to_obj
        THEN [s EXCEPT !.raised = "KeyError"]
        ELSE [s EXCEPT !.new.id_to_obj[k] = [revoked_by |-> found[1].target_ref] @@ @,
                       !.revocations = @ \cup {k}]

get_old_version(k, s) ==
    IF CanFloat(s.old.id_to_obj[k])
    THEN [s EXCEPT !.old_version = float(s.old.id_to_obj[k].x_mitre_version)]
    ELSE [s EXCEPT !.stdout = Append(@, <<"old", k>>)]

get_new_version(k, s) ==
    IF CanFloat(s.new.id_to_obj[k])
    THEN [s EXCEPT !.new_version = float(s.new.id_to_obj[k].x_mitre_version)]
    ELSE [s EXCEPT !.stdout = Append(@, <<"new", k>>)]

check_minor_change(k, s) ==
    IF \/ "modified" \notin DOMAIN s.old.id_to_obj[k]
       \/ "modified" \notin DOMAIN s.new.id_to_obj[k]
    THEN [s EXCEPT !.raised = "KeyError"]
    ELSE IF date_increased(dateparser_parse(s.new.id_to_obj[k].modified),
                           dateparser_parse(s.old.id_to_obj[k].modified))
    THEN [s EXCEPT !.minor_changes = @ \cup {k}]
    ELSE s

check_for_changes_no_else(k, s) ==
    IF s.new_version = Unbound \/ s.old_version = Unbound
    THEN [s EXCEPT !.raised = "UnboundLocalError"]
    ELSE IF version_increased(s.new_version, s.old_version)
    THEN check_minor_change(k, [s EXCEPT !.changes = @ \cup {k}])
    ELSE check_minor_change(k, s)

check_for_changes(k, s) ==
    IF s.new_version = Unbound \/ s.old_version = Unbound
    THEN [s EXCEPT !.raised = "UnboundLocalError"]
    ELSE IF version_increased(s.new_version, s.old_version)
    THEN [s EXCEPT !.changes = @ \cup {k}]
    ELSE check_minor_change(k, s)

loop_body_one_test(k, s) ==
    IF /\ is_revoked(s.new.id_to_obj[k])
       /\ not_previously_revoked(s.old.id_to_obj[k])
    THEN store_revoking_object(k, s)
    ELSE IF is_deprecated(s.new.id_to_obj[k])
    THEN IF not_previously_deprecated(s.old.id_to_obj[k])
         THEN [s EXCEPT !.deprecations = @ \cup {k}]
         ELSE s
    ELSE check_for_changes(k, get_new_version(k, get_old_version(k, s)))

loop_body(k, s) ==
    IF is_revoked(s.new.id_to_obj[k])
    THEN IF not_previously_revoked(s.old.id_to_obj[k])
         THEN store_revoking_object(k, s)
         ELSE s
    ELSE IF is_deprecated(s.new.id_to_obj[k])
    THEN IF not_previously_deprecated(s.old.id_to_obj[k])
         THEN [s EXCEPT !.deprecations = @ \cup {k}]
         ELSE s
    ELSE check_for_changes(k, get_new_version(k, get_old_version(k, s)))

(***************************************************************************)
(* "set data": the sections of one (obj_type, domain) pair.                *)
(***************************************************************************)
objects_of(snapshot, ks) == {snapshot.id_to_obj[k] : k \in ks}

with_minor_changes_folded(report_minor, n, mc, d) ==
    IF report_minor
    THEN [minor_changes |-> objects_of(n, mc)] @@ d
    ELSE [d EXCEPT !.changes = @ \cup objects_of(n, mc)]

with_minor_changes(report_minor, n, mc, d) ==
    IF report_minor THEN [minor_changes |-> objects_of(n, mc)] @@ d ELSE d

with_deletions_always(o, del, d) == [deletions |-> objects_of(o, del)] @@ d

with_deletions(o, del, d) ==
    IF Cardinality(del) > 0 THEN [deletions |-> objects_of(o, del)] @@ d ELSE d

set_data(report_minor, o, n, add, del, ch, mc, rev, dep) ==
    with_deletions(o, del,
        with_minor_changes(report_minor, n, mc,
            [additions    |-> objects_of(n, add),
             changes      |-> objects_of(n, ch),
             revocations  |-> objects_of(n, rev),
             deprecations |-> objects_of(n, dep)]))

(***************************************************************************)
(* The inputs: the bundles on disk and the constructor's arguments.        *)
(***************************************************************************)
OptField(name, values) == {EmptyDict} \cup {name :> v : v \in values}

Versions == {FloatTable[i] : i \in 1..MaxVersion}

Objs(type, id) ==
    {[type |-> type, id |-> id] @@ r @@ d @@ v @@ m :
        r \in OptField("revoked", BOOLEAN),
        d \in OptField("x_mitre_deprecated", BOOLEAN),
        v \in OptField("x_mitre_version", Versions \cup {"beta"}),
        m \in OptField("modified", 1..MaxDate)}

Plain(type, id) ==
    [type |-> type, id |-> id, x_mitre_version |-> "1.0", modified |-> 1]

Edited(type, id) ==
    [type |-> type, id |-> id, x_mitre_version |-> "1.0", modified |-> 2]

RevokedBy(source, target) ==
    [type |-> "relationship", id |-> "relationship--1",
     relationship_type |-> "revoked-by",
     source_ref |-> source, target_ref |-> target]

Maybe(objs) == {<<>>} \cup {<<obj>> : obj \in objs}

\* one technique with every combination of fields next to one that was edited
OneKeyFiles ==
    {(<<"old", "enterprise-attack">> :> (o \o <<Plain("attack-pattern", "T2")>>)) @@
     (<<"new", "enterprise-attack">> :> (n \o <<Edited("attack-pattern", "T2")>> \o r)) :
        o \in Maybe(Objs("attack-pattern", "T1")),
        n \in Maybe(Objs("attack-pattern", "T1")),
        r \in Maybe({RevokedBy("T1", "T2"), RevokedBy("T1", "T3")})}

\* two ids of two object types; a store may hold two versions of one object
NarrowObjs(type, id) ==
    {[type |-> type, id |-> id, modified |-> m] @@ v :
        m \in {1, 2},
        v \in OptField("x_mitre_version", Versions)}

Stores(objs) ==
    {<<>>} \cup {<<a>> : a \in objs} \cup
    {<<p[1], p[2]>> : p \in {q \in objs \X objs :
                                q[1].id = q[2].id => q[1].modified # q[2].modified}}

TwoTypeFiles ==
    {(<<"old", "enterprise-attack">> :> o) @@
     (<<"new", "enterprise-attack">> :> n) @@
     (<<"old", "mobile-attack">> :> <<Plain("attack-pattern", "M1")>>) @@
     (<<"new", "mobile-attack">> :> <<Edited("attack-pattern", "M1")>>) :
        o \in Stores(NarrowObjs("attack-pattern", "T1") \cup NarrowObjs("intrusion-set", "G1")),
        n \in Stores(NarrowObjs("attack-pattern", "T1") \cup NarrowObjs("intrusion-set", "G1"))}

(***************************************************************************)
(* DiffStix.__init__ up to the call of load_data.                          *)
(***************************************************************************)
InitLocals ==
    /\ self_data = EmptyDict
    /\ pc = IF Len(self_types) = 0 \/ Len(self_domains) = 0 THEN "done" ELSE "load"
    /\ ti = 1 /\ di = 0
    /\ old = EmptyDict /\ new = EmptyDict
    /\ iter = {} /\ key = "" /\ intersection = {}
    /\ additions = {} /\ deletions = {}
    /\ changes = {} /\ minor_changes = {} /\ revocations = {} /\ deprecations = {}
    /\ old_version = Unbound /\ new_version = Unbound
    /\ stdout = <<>> /\ raised = ""

Init ==
    /\ files \in OneKeyFiles
    /\ self_types = <<"technique">>
    /\ self_domains = <<"enterprise-attack">>
    /\ self_minor_changes \in BOOLEAN
    /\ InitLocals

InitPairs ==
    /\ files \in TwoTypeFiles
    /\ self_types = <<"technique", "group">>
    /\ self_domains = <<"enterprise-attack", "mobile-attack">>
    /\ self_minor_changes = TRUE
    /\ InitLocals

(***************************************************************************)
(* load_data, one step per loop iteration.  ti and di are the positions of *)
(* the pair the loops have entered last (di = 0: none yet).                *)
(***************************************************************************)
obj_type == self_types[ti]

domain == self_domains[di]

HasNextPair == di < Len(self_domains) \/ ti < Len(self_types)

\* lines 173-218: enter the next pair, load both snapshots, take the key sets apart
LoadPair ==
    /\ pc = "load"
    /\ ti' = IF di < Len(self_domains) THEN ti ELSE ti + 1
    /\ di' = IF di < Len(self_domains) THEN di + 1 ELSE 1
    /\ UNCHANGED <<files, self_types, self_domains, self_minor_changes, self_data,
                   key, old_version, new_version, stdout, raised>>
    /\ old' = load_datastore(files[<<"old", self_domains[di']>>], self_types[ti'])
    /\ new' = load_datastore(files[<<"new", self_domains[di']>>], self_types[ti'])
    /\ intersection' = old'.keys \cap new'.keys
    /\ additions' = new'.keys \ old'.keys
    /\ deletions' = old'.keys \ new'.keys
    /\ changes' = {} /\ minor_changes' = {}
    /\ revocations' = {} /\ deprecations' = {}
    /\ iter' = intersection'
    /\ pc' = "classify"

Locals ==
    [old |-> old, new |-> new, changes |-> changes, minor_changes |-> minor_changes,
     revocations |-> revocations, deprecations |-> deprecations,
     old_version |-> old_version, new_version |-> new_version,
     stdout |-> stdout, raised |-> raised]

\* lines 221-258: one iteration of the for loop, in the set's iteration order
ClassifyKey(k) ==
    /\ pc = "classify"
    /\ k \in iter
    /\ iter' = iter \ {k}
    /\ key' = k
    /\ LET s == loop_body(k, Locals)
       IN  /\ new' = s.new
           /\ changes' = s.changes
           /\ minor_changes' = s.minor_changes
           /\ revocations' = s.revocations
           /\ deprecations' = s.deprecations
           /\ old_version' = s.old_version
           /\ new_version' = s.new_version
           /\ stdout' = s.stdout
           /\ raised' = s.raised
           /\ pc' = IF s.raised = "" THEN "classify" ELSE "aborted"
    /\ UNCHANGED <<files, self_types, self_domains, self_minor_changes, self_data,
                   ti, di, old, intersection, additions, deletions>>

\* lines 260-275: store the sections of the pair
SetData ==
    /\ pc = "classify"
    /\ iter = {}
    /\ self_data' =
        [p \in DOMAIN self_data \cup {<<obj_type, domain>>} |->
            IF p = <<obj_type, domain>>
            THEN set_data(self_minor_changes, old, new, additions, deletions,
                          changes, minor_changes, revocations, deprecations)
            ELSE self_data[p]]
    /\ pc' = IF HasNextPair THEN "load" ELSE "done"
    /\ UNCHANGED <<files, self_types, self_domains, self_minor_changes, ti, di,
                   old, new, iter, key, intersection, additions, deletions,
                   changes, minor_changes, revocations, deprecations,
                   old_version, new_version, stdout, raised>>

Next ==
    \/ LoadPair
    \/ \E k \in iter : ClassifyKey(k)
    \/ SetData

Spec == Init /\ [][Next]_vars

SpecPairs == InitPairs /\ [][Next]_vars

(***************************************************************************)
(* Properties.  Classified: the for loop over the keys of the pair entered *)
(* last has run to its end.                                                *)
(***************************************************************************)
Classified == pc \in {"classify", "load", "done"} /\ di > 0 /\ iter = {}

Stored == pc \in {"load", "done"} /\ di > 0

Flag(obj, name) == name \in DOMAIN obj /\ obj[name] = TRUE

Categories == <<additions, changes, minor_changes, revocations, deprecations, deletions>>

InNoCategory(k) == \A i \in DOMAIN Categories : k \notin Categories[i]

\* C1: the six id sets additions, changes, minor_changes, revocations,
\* deprecations and deletions are pairwise disjoint, and hold only identifiers
\* of keys(old) union keys(new), each in at most one set.
SixSetsDisjoint ==
    Classified =>
        /\ \A i, j \in DOMAIN Categories :
              i # j => Categories[i] \cap Categories[j] = {}
        /\ \A i \in DOMAIN Categories : Categories[i] \subseteq old.keys \cup new.keys

SixSetsDisjointWitness ==
    /\ pc = "done"
    /\ changes = {"T1"}
    /\ minor_changes = {"T2"}
    /\ "modified" \in DOMAIN new.id_to_obj["T1"] \cap DOMAIN old.id_to_obj["T1"]
    /\ dateparser_parse(new.id_to_obj["T1"].modified)
          > dateparser_parse(old.id_to_obj["T1"].modified)

\* C2: an identifier of both snapshots whose new record has revoked = true and
\* whose old record lacks the flag or has it false is in revocations and in
\* none of changes, minor_changes, deprecations, whatever its versions,
\* timestamps and deprecated flags are.
NewlyRevokedIsRevocation ==
    Classified =>
        \A k \in intersection :
            (/\ Flag(new.id_to_obj[k], "revoked")
             /\ ~Flag(old.id_to_obj[k], "revoked"))
            => /\ k \in revocations
               /\ k \notin changes \cup minor_changes \cup deprecations

NewlyRevokedIsRevocationWitness ==
    /\ pc = "done"
    /\ "T1" \in revocations
    /\ Flag(new.id_to_obj["T1"], "x_mitre_deprecated")
    /\ "revoked" \in DOMAIN old.id_to_obj["T1"]
    /\ CanFloat(old.id_to_obj["T1"]) /\ CanFloat(new.id_to_obj["T1"])
    /\ float(new.id_to_obj["T1"].x_mitre_version) > float(old.id_to_obj["T1"].x_mitre_version)

\* C3: an identifier of both snapshots that is revoked = true in old and in new
\* is in no category, also when the new record is deprecated, has a higher
\* version or a later modification timestamp.
RevokedInBothIsUnchanged ==
    Classified =>
        \A k \in intersection :
            (/\ Flag(new.id_to_obj[k], "revoked")
             /\ Flag(old.id_to_obj[k], "revoked"))
            => InNoCategory(k)

RevokedInBothIsUnchangedWitness ==
    /\ pc = "done"
    /\ "T1" \in intersection
    /\ Flag(new.id_to_obj["T1"], "revoked")
    /\ Flag(old.id_to_obj["T1"], "revoked")
    /\ Flag(new.id_to_obj["T1"], "x_mitre_deprecated")
    /\ CanFloat(old.id_to_obj["T1"]) /\ CanFloat(new.id_to_obj["T1"])
    /\ float(new.id_to_obj["T1"].x_mitre_version) > float(old.id_to_obj["T1"].x_mitre_version)
    /\ \E r \in DOMAIN files[<<"new", "enterprise-attack">>] :
          files[<<"new", "enterprise-attack">>][r].type = "relationship"

\* C4: for an identifier of both snapshots whose new record is neither revoked
\* nor deprecated and whose two versions parse: a higher new version gives
\* changes, whatever the timestamps; otherwise it is in minor_changes exactly
\* when the new modification timestamp is later, and in no category when not.
VersionThenDate ==
    Classified =>
        \A k \in intersection :
            (/\ ~Flag(new.id_to_obj[k], "revoked")
             /\ ~Flag(new.id_to_obj[k], "x_mitre_deprecated")
             /\ CanFloat(old.id_to_obj[k]) /\ CanFloat(new.id_to_obj[k]))
            => IF float(new.id_to_obj[k].x_mitre_version)
                    > float(old.id_to_obj[k].x_mitre_version)
               THEN k \in changes /\ k \notin minor_changes
               ELSE /\ k \notin changes
                    /\ k \in minor_changes <=>
                          dateparser_parse(new.id_to_obj[k].modified)
                              > dateparser_parse(old.id_to_obj[k].modified)
                    /\ k \notin minor_changes => InNoCategory(k)

VersionThenDateWitness ==
    /\ pc = "done"
    /\ "T1" \in minor_changes
    /\ CanFloat(old.id_to_obj["T1"]) /\ CanFloat(new.id_to_obj["T1"])
    /\ float(new.id_to_obj["T1"].x_mitre_version) < float(old.id_to_obj["T1"].x_mitre_version)

VersionParseSkipped ==
    \A k \in intersection \ iter :
        (/\ ~Flag(new.id_to_obj[k], "revoked")
         /\ ~Flag(new.id_to_obj[k], "x_mitre_deprecated")
         /\ ~CanFloat(old.id_to_obj[k]) \/ ~CanFloat(new.id_to_obj[k]))
        => /\ ~CanFloat(old.id_to_obj[k]) =>
                 \E i \in DOMAIN stdout : stdout[i] = <<"old", k>>
           /\ ~CanFloat(new.id_to_obj[k]) =>
                 \E i \in DOMAIN stdout : stdout[i] = <<"new", k>>
           /\ k \notin changes \cup minor_changes
           /\ ~(pc = "aborted" /\ key = k)

\* C7: when a newly revoked record has no "revoked-by" relationship in the new
\* bundle, or the relationship's target is not a record of the new snapshot,
\* the run is not aborted.
RevocationFailureConfined ==
    ~(/\ pc = "aborted"
      /\ Flag(new.id_to_obj[key], "revoked")
      /\ ~Flag(old.id_to_obj[key], "revoked"))

\* C8: indexing never builds an identifier -> record mapping from a raw
\* collection in which two records share an identifier.
DuplicateIdentifierFails ==
    pc = "classify" =>
        \A side \in {"old", "new"} :
            LET raw_data == raw_data_of(files[<<side, domain>>], obj_type)
            IN  \A i, j \in DOMAIN raw_data :
                    raw_data[i].id = raw_data[j].id => i = j

\* C9: the sections of a pair have the key "deletions" if and only if
\* keys(old) - keys(new) is not empty, and then it holds exactly the old
\* records of those identifiers.
DeletionsOnlyIfNonEmpty ==
    Stored =>
        LET d == self_data[<<obj_type, domain>>]
        IN  /\ "deletions" \in DOMAIN d <=> old.keys \ new.keys # {}
            /\ "deletions" \in DOMAIN d =>
                  d.deletions = {old.id_to_obj[k] : k \in old.keys \ new.keys}

DeletionsOnlyIfNonEmptyWitness ==
    /\ pc = "done"
    /\ old.keys \ new.keys = {"T1"}
    /\ self_data[<<obj_type, domain>>].deletions = {old.id_to_obj["T1"]}

\* C10: the sections of a pair have the key "minor_changes" if and only if
\* minor changes were requested, and every other section is what it is with
\* the option set the other way.
OtherSections == {"additions", "changes", "revocations", "deprecations", "deletions"}

MinorChangesIsFilter ==
    Stored =>
        LET d == self_data[<<obj_type, domain>>]
            other == set_data(~self_minor_changes, old, new, additions, deletions,
                              changes, minor_changes, revocations, deprecations)
        IN  /\ "minor_changes" \in DOMAIN d <=> self_minor_changes
            /\ "minor_changes" \in DOMAIN other <=> ~self_minor_changes
            /\ DOMAIN d \cap OtherSections = DOMAIN other \cap OtherSections
            /\ \A section \in DOMAIN d \cap OtherSections : d[section] = other[section]
            /\ d.additions = {new.id_to_obj[k] : k \in new.keys \ old.keys}
            /\ d.changes = {new.id_to_obj[k] : k \in changes}

MinorChangesIsFilterWitness ==
    /\ pc = "done"
    /\ ~self_minor_changes
    /\ "T1" \in minor_changes
    /\ "minor_changes" \notin DOMAIN self_data[<<obj_type, domain>>]

\* C11: classification never mutates a snapshot: at every point of load_data
\* after indexing, every record of the old and of the new identifier -> record
\* mapping has the fields and values it had right after indexing, also the
\* records classified as revocations.
SnapshotsNeverMutated ==
    di > 0 =>
        /\ old.id_to_obj = load_datastore(files[<<"old", domain>>], obj_type).id_to_obj
        /\ new.id_to_obj = load_datastore(files[<<"new", domain>>], obj_type).id_to_obj

\* C11 as amended: classification never changes the old snapshot, and changes
\* the new snapshot only in the records classified as revocations, which gain
\* the field revoked_by (the revoking record of the new snapshot) and keep every
\* other field and value.
SnapshotsChangeOnlyByRevokedBy ==
    di > 0 =>
        LET indexed == load_datastore(files[<<"new", domain>>], obj_type).id_to_obj
        IN  /\ old.id_to_obj = load_datastore(files[<<"old", domain>>], obj_type).id_to_obj
            /\ DOMAIN new.id_to_obj = DOMAIN indexed
            /\ \A k \in DOMAIN indexed :
                  IF k \in revocations
                  THEN /\ DOMAIN new.id_to_obj[k] = DOMAIN indexed[k] \cup {"revoked_by"}
                       /\ \A f \in DOMAIN indexed[k] : new.id_to_obj[k][f] = indexed[k][f]
                       /\ new.id_to_obj[k].revoked_by \in new.keys
                  ELSE new.id_to_obj[k] = indexed[k]

SnapshotsChangeOnlyByRevokedByWitness ==
    /\ pc = "done"
    /\ revocations = {"T1"}
    /\ new.id_to_obj["T1"].revoked_by = "T2"
    /\ "revoked_by" \notin DOMAIN load_datastore(files[<<"new", domain>>], obj_type).id_to_obj["T1"]

\* The for loop of lines 221-258 run over the keys in a given order, from the
\* locals s; an exception ends it.
RECURSIVE run_loop(_, _)
run_loop(order, s) ==
    IF order = <<>> \/ s.raised # ""
    THEN s
    ELSE run_loop(Tail(order), loop_body(Head(order), s))

\* the orders in which a python set can hand out its elements
Orders(S) ==
    {o \in [1..Cardinality(S) -> S] : \A i, j \in DOMAIN o : o[i] = o[j] => i = j}

\* the locals of load_data when the loop of the first pair begins
FirstLoopLocals ==
    [old |-> old,
     new |-> load_datastore(files[<<"new", domain>>], obj_type),
     changes |-> {}, minor_changes |-> {}, revocations |-> {}, deprecations |-> {},
     old_version |-> Unbound, new_version |-> Unbound,
     stdout |-> <<>>, raised |-> ""]

\* C12: the classification of a pair is a function of its two snapshots only:
\* whenever the loop over the keys of the first pair has ended, every other
\* order of visiting the same keys ends as well and puts every identifier in
\* the same category.
OrderIndependent ==
    (Classified /\ ti = 1 /\ di = 1) =>
        \A o \in Orders(intersection) :
            LET r == run_loop(o, FirstLoopLocals)
            IN  /\ r.raised = ""
                /\ r.changes = changes
                /\ r.minor_changes = minor_changes
                /\ r.revocations = revocations
                /\ r.deprecations = deprecations

\* C13: a record of both snapshots, not revoked in new, with deprecated = false
\* in old and deprecated = true in new is classified like one whose old record
\* has no deprecated flag: it is in deprecations.
DeprecatedFalseLikeAbsent ==
    Classified =>
        \A k \in intersection :
            (/\ ~Flag(new.id_to_obj[k], "revoked")
             /\ Flag(new.id_to_obj[k], "x_mitre_deprecated")
             /\ "x_mitre_deprecated" \in DOMAIN old.id_to_obj[k]
             /\ old.id_to_obj[k].x_mitre_deprecated = FALSE)
            => k \in deprecations

====
